---- MODULE Spec2Model ----
(***************************************************************************)
(* CartAPI (static/js/cart-api.js): the browser-side cart facade.          *)
(*                                                                         *)
(* The object's fields, the two sessionStorage keys it uses, the text of   *)
(* the count-display elements and the 'cart-updated' events are the state. *)
(* Every async method is split at its awaits: the synchronous part up to   *)
(* `await fetch(...)` is the call action, the part between the fetch       *)
(* promise settling and `await response.json()` is the "fetch" step, and   *)
(* the rest of the handler (with its finally block) is the "json" step.    *)
(* JavaScript runs each of these parts to completion, so each is one       *)
(* atomic action; other calls interleave only between them.                *)
(*                                                                         *)
(* Optional values (null / undefined / absent field) are the empty tuple   *)
(* <<>>, a present value v is <<v>>.                                       *)
(***************************************************************************)
EXTENDS Integers, Sequences, FiniteSets, Bags

VARIABLES
    isAuthenticated, \* CartAPI.isAuthenticated
    initialized,    \* CartAPI._initialized
    pending,        \* CartAPI._pendingRequests
    cache,          \* sessionStorage['cart_count_cache']: <<>> or <<[count, timestamp]>>
    sessionCart,    \* sessionStorage['cart']: what is stored, one of StoredCarts
    lastCartCount,  \* CartAPI._lastCartCount: <<>> (null) or <<n>>
    display,        \* textContent of the count-display elements: <<>> (as rendered) or <<n>>
    events,         \* the detail.count of the last two 'cart-updated' events dispatched
    now,            \* Date.now(), in milliseconds
    calls,          \* bag of async calls suspended at an await
    serverCount,    \* the backend's item count of this guest's cart
    last            \* the step taken last and what it returned to its caller

vars == <<isAuthenticated, initialized, pending, cache, sessionCart, lastCartCount, display,
          events, now, calls, serverCount, last>>

----------------------------------------------------------------------------
(* Bounds of the model *)

MaxCount == 1
MaxCalls == 2
MaxTicks == 2

(* Program constants *)

CacheTTL == 5000

Null == <<>>
Counts == 0..MaxCount
TickStep == CacheTTL \div 2
MaxNow == MaxTicks * TickStep

\* What sessionStorage may hold under the key 'cart': nothing, the empty
\* string, "[]", text that is not JSON, or the JSON of a list of items
StoredCarts == {"missing", "blank", "empty", "garbage", "items"}

\* The ages, in milliseconds, that the cache entry left by an earlier page of
\* the tab may have when this page loads
LoadAges == {0, 1000, CacheTTL}

LoadKeys == {"loadCartCount", "loadCart"}
Mutations == {"addToCart", "updateCartItem", "removeFromCart", "mergeSessionCart"}

----------------------------------------------------------------------------
(* Values *)

\* `x || 0` for a count x that may be undefined
OrZero(x) == IF x = Null \/ x = <<0>> THEN 0 ELSE x[1]

Items(n) == [i \in 1..n |-> "item"]

\* `data.cart || []`
OrEmptyList(x) == IF x = Null THEN <<>> ELSE x[1]

\* A response body.  parse: response.json() resolves; count is the body's
\* item_count (GET, item update, item remove) or cart_count (POST add, merge).
Body(parse, success, count, cart) ==
    [parse |-> parse, success |-> success, count |-> count, cart |-> cart]

\* What the server answered, carried by a call awaiting response.json():
\* success, and the item count the server saw (<<>> before the answer)
Answer(success, seen) == [success |-> success, seen |-> seen]

NoAnswer == Answer(FALSE, Null)

Call(op, pc, answer) == [op |-> op, pc |-> pc, answer |-> answer]

\* What a step returned to its caller
RNull == [t |-> "null", v |-> <<>>]
RUndefined == [t |-> "undefined", v |-> <<>>]
RPending == [t |-> "pending", v |-> <<>>]
RNum(n) == [t |-> "number", v |-> <<n>>]
RList(l) == [t |-> "list", v |-> l]
RData(b) == [t |-> "data", v |-> <<b>>]
RNetworkError == [t |-> "Network error", v |-> <<>>]
RNoItems == [t |-> "No items to merge", v |-> <<>>]

\* The step taken last: the operation, the branch it took, the value it was
\* given (the count passed to updateCartCount, the body a handler parsed)
\* and the value it returned
Step(op, step, arg, ret) == [op |-> op, step |-> step, arg |-> arg, ret |-> ret]

\* Number of suspended calls of operation op
InFlight(op) ==
    BagCardinality([c \in {d \in BagToSet(calls) : d.op = op} |-> calls[c]])

Suspend(c) == calls (+) SetToBag({c})
Resume(c) == calls (-) SetToBag({c})

----------------------------------------------------------------------------
(* Count cache: _cacheCount, _getCachedCount, _clearCountCache *)

cacheCount(count) == cache' = <<[count |-> count, timestamp |-> now]>>

\* getCachedCount with `age <= 5000`
getCachedCount_inclusive ==
    IF cache = Null THEN Null
    ELSE LET data == cache[1]
             age == now - data.timestamp
         IN  IF age <= CacheTTL THEN <<data.count>> ELSE Null

\* getCachedCount with `return data.count || null`
getCachedCount_truthy ==
    IF cache = Null THEN Null
    ELSE LET data == cache[1]
             age == now - data.timestamp
         IN  IF age < CacheTTL /\ data.count # 0 THEN <<data.count>> ELSE Null

getCachedCount ==
    IF cache = Null THEN Null
    ELSE LET data == cache[1]
             age == now - data.timestamp
         IN  IF age < CacheTTL THEN <<data.count>> ELSE Null

clearCountCache == cache' = Null

(* Legacy session cart: getSessionCart, clearSessionCart *)

getSessionCart ==
    LET cart == IF sessionCart = "missing" THEN Null ELSE <<sessionCart>>
    IN  IF cart = Null \/ cart = <<"blank">> THEN <<>>   \* `cart ? ... : []`
        ELSE IF cart = <<"garbage">> THEN <<>>           \* JSON.parse throws: catch
        ELSE IF cart = <<"empty">> THEN <<>>             \* JSON.parse("[]")
        ELSE Items(1)

clearSessionCart == sessionCart' = "missing"

(* updateCartCount(count): the last-announced count, the display elements *)
(* and the 'cart-updated' event                                           *)

dispatchEvent(n) ==
    events' = IF Len(events) < 2 THEN Append(events, n) ELSE <<events[2], n>>

\* updateCartCount without the comparison with _lastCartCount
updateCartCount_always(count) ==
    LET normalizedCount == OrZero(count)
    IN  /\ lastCartCount' = <<normalizedCount>>
        /\ display' = <<normalizedCount>>
        /\ dispatchEvent(normalizedCount)

\* updateCartCount without the 'cart-updated' event
updateCartCount_silent(count) ==
    LET normalizedCount == OrZero(count)
    IN  IF lastCartCount = <<normalizedCount>>
        THEN UNCHANGED <<lastCartCount, display, events>>
        ELSE /\ lastCartCount' = <<normalizedCount>>
             /\ display' = <<normalizedCount>>
             /\ UNCHANGED events

updateCartCount(count) ==
    LET normalizedCount == OrZero(count)
    IN  IF lastCartCount = <<normalizedCount>>
        THEN UNCHANGED <<lastCartCount, display, events>>
        ELSE /\ lastCartCount' = <<normalizedCount>>
             /\ display' = <<normalizedCount>>
             /\ dispatchEvent(normalizedCount)

----------------------------------------------------------------------------
(* loadCartCount(): the part that runs before the first await.  caller is  *)
(* "loadCartCount" for a direct call and "init" for the call init() makes. *)

\* loadCartCount without the _pendingRequests check
loadCartCount_noDedup(caller) ==
    LET cached == getCachedCount
        requestKey == "loadCartCount"
    IN  IF cached # Null
        THEN /\ updateCartCount(cached)
             /\ last' = Step(caller, "call", Null, RNum(cached[1]))
             /\ UNCHANGED <<pending, calls>>
        ELSE /\ BagCardinality(calls) < MaxCalls
             /\ pending' = pending \cup {requestKey}
             /\ calls' = Suspend(Call(requestKey, "fetch", NoAnswer))
             /\ last' = Step(caller, "call", Null, RPending)
             /\ UNCHANGED <<lastCartCount, display, events>>

\* loadCartCount with the _pendingRequests check before the cache lookup
loadCartCount_dedupFirst(caller) ==
    LET cached == getCachedCount
        requestKey == "loadCartCount"
    IN  IF requestKey \in pending
        THEN /\ last' = Step(caller, "call", Null, RNull)
             /\ UNCHANGED <<pending, calls, lastCartCount, display, events>>
        ELSE IF cached # Null
        THEN /\ updateCartCount(cached)
             /\ last' = Step(caller, "call", Null, RNum(cached[1]))
             /\ UNCHANGED <<pending, calls>>
        ELSE /\ BagCardinality(calls) < MaxCalls
             /\ pending' = pending \cup {requestKey}
             /\ calls' = Suspend(Call(requestKey, "fetch", NoAnswer))
             /\ last' = Step(caller, "call", Null, RPending)
             /\ UNCHANGED <<lastCartCount, display, events>>

loadCartCount(caller) ==
    LET cached == getCachedCount
        requestKey == "loadCartCount"
    IN  IF cached # Null
        THEN /\ updateCartCount(cached)
             /\ last' = Step(caller, "call", Null, RNum(cached[1]))
             /\ UNCHANGED <<pending, calls>>
        ELSE IF requestKey \in pending
        THEN /\ last' = Step(caller, "call", Null, RNull)
             /\ UNCHANGED <<pending, calls, lastCartCount, display, events>>
        ELSE /\ BagCardinality(calls) < MaxCalls
             /\ pending' = pending \cup {requestKey}
             /\ calls' = Suspend(Call(requestKey, "fetch", NoAnswer))
             /\ last' = Step(caller, "call", Null, RPending)
             /\ UNCHANGED <<lastCartCount, display, events>>

CallLoadCartCount ==
    /\ loadCartCount("loadCartCount")
    /\ UNCHANGED <<isAuthenticated, initialized, cache, sessionCart, now, serverCount>>

(* init() *)

\* init without the _initialized check
init_noGuard ==
    /\ initialized' = TRUE
    /\ loadCartCount("init")
    /\ UNCHANGED <<isAuthenticated, cache, sessionCart, now, serverCount>>

init ==
    IF initialized
    THEN /\ last' = Step("init", "call", Null, RUndefined)
         /\ UNCHANGED <<isAuthenticated, initialized, pending, cache, sessionCart, lastCartCount,
                        display, events, now, calls, serverCount>>
    ELSE /\ initialized' = TRUE
         /\ loadCartCount("init")
         /\ UNCHANGED <<isAuthenticated, cache, sessionCart, now, serverCount>>

(* loadCart(): the part that runs before the first await *)

\* loadCart without the _pendingRequests check
loadCart_noDedup ==
    LET requestKey == "loadCart"
    IN  /\ BagCardinality(calls) < MaxCalls
        /\ pending' = pending \cup {requestKey}
        /\ calls' = Suspend(Call(requestKey, "fetch", NoAnswer))
        /\ last' = Step("loadCart", "call", Null, RPending)

\* loadCart with the duplicate check inside the try block, so that the
\* finally block deletes the key of the request still in flight
loadCart_dupReleases ==
    LET requestKey == "loadCart"
    IN  IF requestKey \in pending
        THEN /\ last' = Step("loadCart", "call", Null, RNull)
             /\ pending' = pending \ {requestKey}
             /\ UNCHANGED calls
        ELSE /\ BagCardinality(calls) < MaxCalls
             /\ pending' = pending \cup {requestKey}
             /\ calls' = Suspend(Call(requestKey, "fetch", NoAnswer))
             /\ last' = Step("loadCart", "call", Null, RPending)

loadCart ==
    LET requestKey == "loadCart"
    IN  IF requestKey \in pending
        THEN /\ last' = Step("loadCart", "call", Null, RNull)
             /\ UNCHANGED <<pending, calls>>
        ELSE /\ BagCardinality(calls) < MaxCalls
             /\ pending' = pending \cup {requestKey}
             /\ calls' = Suspend(Call(requestKey, "fetch", NoAnswer))
             /\ last' = Step("loadCart", "call", Null, RPending)

CallLoadCart ==
    /\ loadCart
    /\ UNCHANGED <<isAuthenticated, initialized, cache, sessionCart, lastCartCount, display,
                   events, now, serverCount>>

----------------------------------------------------------------------------
(* The backend, as section 6 of the specification describes it *)

\* What GET /api/cart/ may answer when the cart holds s items
GetAnswers(s) == {Answer(FALSE, Null), Answer(TRUE, <<s>>)}

\* The bodies that may carry answer a of a GET: one that does not parse,
\* {success: false}, {success, item_count, cart}, or {success} alone
GetBodies(a) ==
    {Body(FALSE, FALSE, Null, Null)} \cup
    IF a.success
    THEN {Body(TRUE, TRUE, a.seen, <<Items(a.seen[1])>>), Body(TRUE, TRUE, Null, Null)}
    ELSE {Body(TRUE, FALSE, Null, Null)}

\* The item counts a mutation may leave when the server applies it
ServerApply(op, s) ==
    CASE op = "addToCart" -> {s + 1} \cap Counts
      [] op = "removeFromCart" -> {s - 1} \cap Counts
      [] op = "updateCartItem" -> {s - 1, s} \cap Counts
      [] op = "mergeSessionCart" -> {s, s + 1} \cap Counts

\* The bodies that may carry answer a of a POST: one that does not parse,
\* {success: false}, {success, count} or {success} alone
PostBodies(a) ==
    {Body(FALSE, FALSE, Null, Null)} \cup
    IF a.success
    THEN {Body(TRUE, TRUE, a.seen, Null), Body(TRUE, TRUE, Null, Null)}
    ELSE {Body(TRUE, FALSE, Null, Null)}

----------------------------------------------------------------------------
(* loadCartCount() and loadCart() after their awaits *)

LoadDefault(key) == IF key = "loadCartCount" THEN RNum(0) ELSE RList(<<>>)

\* LoadFails caching and displaying the default
LoadFails_caches(key, c, step) ==
    /\ pending' = pending \ {key}
    /\ calls' = Resume(c)
    /\ last' = Step(key, step, Null, LoadDefault(key))
    /\ cacheCount(0)
    /\ updateCartCount(<<0>>)
    /\ UNCHANGED <<isAuthenticated, initialized, sessionCart, now, serverCount>>

\* LoadFails without the finally block
LoadFails_leaks(key, c, step) ==
    /\ calls' = Resume(c)
    /\ last' = Step(key, step, Null, LoadDefault(key))
    /\ UNCHANGED <<isAuthenticated, initialized, pending, cache, sessionCart, lastCartCount,
                   display, events, now, serverCount>>

\* `return 0` / `return []` through the finally block
LoadFails(key, c, step) ==
    /\ pending' = pending \ {key}
    /\ calls' = Resume(c)
    /\ last' = Step(key, step, Null, LoadDefault(key))
    /\ UNCHANGED <<isAuthenticated, initialized, cache, sessionCart, lastCartCount, display,
                   events, now, serverCount>>

\* `await fetch('/api/cart/')` settles
LoadFetch(key) ==
    \E c \in BagToSet(calls) :
        /\ c.op = key /\ c.pc = "fetch"
        /\ \/ LoadFails(key, c, "failed")      \* fetch rejects: catch
           \/ LoadFails(key, c, "failed")      \* response.ok is false
           \/ \E a \in GetAnswers(serverCount) : \* response.ok: the body is awaited
                /\ calls' = Resume(c) (+) SetToBag({Call(key, "json", a)})
                /\ last' = Step(key, "response", Null, RPending)
                /\ UNCHANGED <<isAuthenticated, initialized, pending, cache, sessionCart,
                               lastCartCount, display, events, now, serverCount>>

\* LoadJson where loadCart() announces the count without caching it
LoadJson_noCache(key) ==
    \E c \in BagToSet(calls) :
        /\ c.op = key /\ c.pc = "json"
        /\ \E data \in GetBodies(c.answer) :
               IF ~data.parse THEN LoadFails(key, c, "failed")
               ELSE IF ~data.success THEN LoadFails(key, c, "failed")
               ELSE LET count == OrZero(data.count)
                    IN  /\ IF key = "loadCartCount" THEN cacheCount(count)
                           ELSE UNCHANGED cache
                        /\ updateCartCount(<<count>>)
                        /\ pending' = pending \ {key}
                        /\ calls' = Resume(c)
                        /\ last' = Step(key, "success", <<data>>,
                                        IF key = "loadCartCount" THEN RNum(count)
                                        ELSE RList(OrEmptyList(data.cart)))
                        /\ UNCHANGED <<isAuthenticated, initialized, sessionCart, now, serverCount>>

\* `await response.json()` settles
LoadJson(key) ==
    \E c \in BagToSet(calls) :
        /\ c.op = key /\ c.pc = "json"
        /\ \E data \in GetBodies(c.answer) :
               IF ~data.parse THEN LoadFails(key, c, "failed")  \* json() rejects
               ELSE IF ~data.success THEN LoadFails(key, c, "failed")
               ELSE LET count == OrZero(data.count)
                    IN  /\ cacheCount(count)
                        /\ updateCartCount(<<count>>)
                        /\ pending' = pending \ {key}
                        /\ calls' = Resume(c)
                        /\ last' = Step(key, "success", <<data>>,
                                        IF key = "loadCartCount" THEN RNum(count)
                                        ELSE RList(OrEmptyList(data.cart)))
                        /\ UNCHANGED <<isAuthenticated, initialized, sessionCart, now, serverCount>>

loadCartCountFetch == LoadFetch("loadCartCount")
loadCartCountJson == LoadJson("loadCartCount")
loadCartFetch == LoadFetch("loadCart")
loadCartJson == LoadJson("loadCart")

----------------------------------------------------------------------------
(* addToCart, updateCartItem, removeFromCart, mergeSessionCart *)

\* The part before the await: the POST is sent
Post(op) ==
    /\ BagCardinality(calls) < MaxCalls
    /\ calls' = Suspend(Call(op, "fetch", NoAnswer))
    /\ last' = Step(op, "call", Null, RPending)
    /\ UNCHANGED <<isAuthenticated, initialized, pending, cache, sessionCart, lastCartCount,
                   display, events, now, serverCount>>

addToCart == Post("addToCart")
updateCartItem == Post("updateCartItem")
removeFromCart == Post("removeFromCart")

\* mergeSessionCart without the check for an empty list
mergeSessionCart_noEmptyCheck == Post("mergeSessionCart")

mergeSessionCart ==
    LET cart == getSessionCart
    IN  IF Len(cart) = 0
        THEN /\ last' = Step("mergeSessionCart", "call", Null, RNoItems)
             /\ UNCHANGED <<isAuthenticated, initialized, pending, cache, sessionCart, lastCartCount,
                            display, events, now, calls, serverCount>>
        ELSE Post("mergeSessionCart")

\* MutationFails with a catch block that resets the displayed count
MutationFails_resets(op, c, step) ==
    /\ calls' = Resume(c)
    /\ last' = Step(op, step, Null, RNetworkError)
    /\ updateCartCount(<<0>>)
    /\ UNCHANGED <<isAuthenticated, initialized, pending, cache, sessionCart, now>>

\* MutationFails with a catch block that drops the cache entry
MutationFails_clears(op, c, step) ==
    /\ calls' = Resume(c)
    /\ last' = Step(op, step, Null, RNetworkError)
    /\ clearCountCache
    /\ UNCHANGED <<isAuthenticated, initialized, pending, sessionCart, lastCartCount,
                   display, events, now>>

\* catch: `return { success: false, error: 'Network error' }`
MutationFails(op, c, step) ==
    /\ calls' = Resume(c)
    /\ last' = Step(op, step, Null, RNetworkError)
    /\ UNCHANGED <<isAuthenticated, initialized, pending, cache, sessionCart, lastCartCount,
                   display, events, now>>

\* `await fetch(..., {method: 'POST'})` settles: the server has applied the
\* mutation or not, and the response arrived or was lost
MutationFetch(op) ==
    \E c \in BagToSet(calls) :
        /\ c.op = op /\ c.pc = "fetch"
        /\ \E applied \in BOOLEAN :
           \E s \in IF applied THEN ServerApply(op, serverCount) ELSE {serverCount} :
             /\ serverCount' = s
             /\ \/ MutationFails(op, c, "failed")
                \/ /\ calls' = Resume(c) (+) SetToBag({Call(op, "json",
                                  Answer(applied, IF applied THEN <<s>> ELSE Null))})
                   /\ last' = Step(op, "response", Null, RPending)
                   /\ UNCHANGED <<isAuthenticated, initialized, pending, cache, sessionCart,
                                  lastCartCount, display, events, now>>

\* MutationJson without the _clearCountCache() calls
MutationJson_keepsCache(op) ==
    \E c \in BagToSet(calls) :
        /\ c.op = op /\ c.pc = "json"
        /\ \E data \in PostBodies(c.answer) :
               IF ~data.parse
               THEN MutationFails(op, c, "failed") /\ UNCHANGED serverCount
               ELSE IF data.success
               THEN /\ IF op = "mergeSessionCart" THEN clearSessionCart
                       ELSE UNCHANGED sessionCart
                    /\ updateCartCount(<<OrZero(data.count)>>)
                    /\ calls' = Resume(c)
                    /\ last' = Step(op, "success", <<data>>, RData(data))
                    /\ UNCHANGED <<isAuthenticated, initialized, pending, cache, now, serverCount>>
               ELSE /\ calls' = Resume(c)
                    /\ last' = Step(op, "refused", <<data>>, RData(data))
                    /\ UNCHANGED <<isAuthenticated, initialized, pending, cache, sessionCart,
                                   lastCartCount, display, events, now, serverCount>>

\* MutationJson where the merge removes the key 'cart' whatever the body says
MutationJson_clearsOnRefusal(op) ==
    \E c \in BagToSet(calls) :
        /\ c.op = op /\ c.pc = "json"
        /\ \E data \in PostBodies(c.answer) :
               IF ~data.parse
               THEN MutationFails(op, c, "failed") /\ UNCHANGED serverCount
               ELSE IF data.success
               THEN /\ IF op = "mergeSessionCart" THEN clearSessionCart
                       ELSE UNCHANGED sessionCart
                    /\ clearCountCache
                    /\ updateCartCount(<<OrZero(data.count)>>)
                    /\ calls' = Resume(c)
                    /\ last' = Step(op, "success", <<data>>, RData(data))
                    /\ UNCHANGED <<isAuthenticated, initialized, pending, now, serverCount>>
               ELSE /\ IF op = "mergeSessionCart" THEN clearSessionCart
                       ELSE UNCHANGED sessionCart
                    /\ calls' = Resume(c)
                    /\ last' = Step(op, "refused", <<data>>, RData(data))
                    /\ UNCHANGED <<isAuthenticated, initialized, pending, cache,
                                   lastCartCount, display, events, now, serverCount>>

\* `await response.json()` settles
MutationJson(op) ==
    \E c \in BagToSet(calls) :
        /\ c.op = op /\ c.pc = "json"
        /\ \E data \in PostBodies(c.answer) :
               IF ~data.parse
               THEN MutationFails(op, c, "failed") /\ UNCHANGED serverCount
               ELSE IF data.success
               THEN /\ IF op = "mergeSessionCart" THEN clearSessionCart
                       ELSE UNCHANGED sessionCart
                    /\ clearCountCache
                    /\ updateCartCount(<<OrZero(data.count)>>)
                    /\ calls' = Resume(c)
                    /\ last' = Step(op, "success", <<data>>, RData(data))
                    /\ UNCHANGED <<isAuthenticated, initialized, pending, now, serverCount>>
               ELSE /\ calls' = Resume(c)
                    /\ last' = Step(op, "refused", <<data>>, RData(data))
                    /\ UNCHANGED <<isAuthenticated, initialized, pending, cache, sessionCart,
                                   lastCartCount, display, events, now, serverCount>>

addToCartFetch == MutationFetch("addToCart")
addToCartJson == MutationJson("addToCart")
updateCartItemFetch == MutationFetch("updateCartItem")
updateCartItemJson == MutationJson("updateCartItem")
removeFromCartFetch == MutationFetch("removeFromCart")
removeFromCartJson == MutationJson("removeFromCart")
mergeSessionCartFetch == MutationFetch("mergeSessionCart")
mergeSessionCartJson == MutationJson("mergeSessionCart")

----------------------------------------------------------------------------
(* updateCartCount(count) called by another script of the page *)

CallUpdateCartCount ==
    \E count \in {Null} \cup {<<n>> : n \in Counts} :
        /\ updateCartCount(count)
        /\ last' = Step("updateCartCount",
                        IF lastCartCount = <<OrZero(count)>> THEN "unchanged"
                        ELSE "announced", count, RUndefined)
        /\ UNCHANGED <<isAuthenticated, initialized, pending, cache, sessionCart, now, calls,
                       serverCount>>

(* clearSessionCart() called by another script of the page *)

CallClearSessionCart ==
    /\ clearSessionCart
    /\ last' = Step("clearSessionCart", "call", Null, RUndefined)
    /\ UNCHANGED <<isAuthenticated, initialized, pending, cache, lastCartCount, display,
                   events, now, calls, serverCount>>

(* Time passes *)

Tick ==
    LET d == TickStep
    IN  /\ now + d <= MaxNow
        /\ now' = now + d
        /\ last' = Step("tick", "tick", Null, RUndefined)
        /\ UNCHANGED <<isAuthenticated, initialized, pending, cache, sessionCart, lastCartCount,
                       display, events, calls, serverCount>>

----------------------------------------------------------------------------

\* The page has just evaluated the script.  sessionStorage outlives the page
\* within a tab: the key 'cart' holds whatever was left there, and the key
\* 'cart_count_cache' is absent or holds the entry an earlier page of the tab
\* wrote.  Time is counted from that write, so the entry carries timestamp 0
\* and the clock reads its age; on a tab without an entry time is counted from
\* the load.
Init ==
    /\ isAuthenticated = TRUE
    /\ initialized = FALSE
    /\ pending = {}
    /\ cache \in {Null} \cup {<<[count |-> c, timestamp |-> 0]>> : c \in Counts}
    /\ sessionCart \in StoredCarts
    /\ lastCartCount = Null
    /\ display = Null
    /\ events = <<>>
    /\ now \in IF cache = Null THEN {0} ELSE LoadAges
    /\ calls = EmptyBag
    /\ serverCount \in Counts
    /\ last = Step("load", "load", Null, RUndefined)

Next ==
    \/ init
    \/ CallLoadCartCount
    \/ CallLoadCart
    \/ addToCart
    \/ updateCartItem
    \/ removeFromCart
    \/ mergeSessionCart
    \/ CallUpdateCartCount
    \/ CallClearSessionCart
    \/ loadCartCountFetch
    \/ loadCartCountJson
    \/ loadCartFetch
    \/ loadCartJson
    \/ addToCartFetch
    \/ addToCartJson
    \/ updateCartItemFetch
    \/ updateCartItemJson
    \/ removeFromCartFetch
    \/ removeFromCartJson
    \/ mergeSessionCartFetch
    \/ mergeSessionCartJson
    \/ Tick

Spec == Init /\ [][Next]_vars

\* The merge of the legacy cart on its own page: mergeSessionCart() and its
\* settlements and clearSessionCart(), with loadCartCount() and
\* updateCartCount() filling the cache and the display, and the clock.
MergeNext ==
    \/ mergeSessionCart
    \/ mergeSessionCartFetch
    \/ mergeSessionCartJson
    \/ CallLoadCartCount
    \/ loadCartCountFetch
    \/ loadCartCountJson
    \/ CallUpdateCartCount
    \/ CallClearSessionCart
    \/ Tick

MergeSpec == Init /\ [][MergeNext]_vars

\* The schedules in which a load and a mutation race in the order of the
\* stale-response case: a load is called only while no mutation is in
\* flight and a mutation only while no other is, so that a GET in flight
\* together with a mutation was sent before it, and no second mutation
\* changes the cart between that mutation being applied and its response
\* being handled.  Every behaviour of RaceSpec is a behaviour of Spec.
MutationInFlight == \E c \in BagToSet(calls) : c.op \in Mutations

RaceLoadCartCount == ~MutationInFlight /\ CallLoadCartCount
RaceLoadCart == ~MutationInFlight /\ CallLoadCart
RaceAddToCart == ~MutationInFlight /\ addToCart
RaceUpdateCartItem == ~MutationInFlight /\ updateCartItem
RaceRemoveFromCart == ~MutationInFlight /\ removeFromCart
RaceMergeSessionCart == ~MutationInFlight /\ mergeSessionCart

RaceNext ==
    \/ RaceLoadCartCount
    \/ RaceLoadCart
    \/ RaceAddToCart
    \/ RaceUpdateCartItem
    \/ RaceRemoveFromCart
    \/ RaceMergeSessionCart
    \/ CallClearSessionCart
    \/ loadCartCountFetch
    \/ loadCartCountJson
    \/ loadCartFetch
    \/ loadCartJson
    \/ addToCartFetch
    \/ addToCartJson
    \/ updateCartItemFetch
    \/ updateCartItemJson
    \/ removeFromCartFetch
    \/ removeFromCartJson
    \/ mergeSessionCartFetch
    \/ mergeSessionCartJson
    \/ Tick

RaceSpec == Init /\ [][RaceNext]_vars

\* The loads on their own page: the calls and settlements of loadCartCount()
\* and loadCart(), the clock, and addToCart as the mutation that clears the
\* cache.  Every request runs to completion or failure: each promise a
\* suspended load awaits eventually settles.
LoadsNext ==
    \/ init
    \/ CallLoadCartCount
    \/ CallLoadCart
    \/ loadCartCountFetch
    \/ loadCartCountJson
    \/ loadCartFetch
    \/ loadCartJson
    \/ addToCart
    \/ addToCartFetch
    \/ addToCartJson
    \/ Tick

FairSpec ==
    /\ Init
    /\ [][LoadsNext]_vars
    /\ WF_vars(loadCartCountFetch) /\ WF_vars(loadCartCountJson)
    /\ WF_vars(loadCartFetch) /\ WF_vars(loadCartJson)

----------------------------------------------------------------------------
(***************************************************************************)
(* The older, authentication-gated variant of CartAPI (unnamed/part_000).  *)
(* It has the flag isAuthenticated, no cache, no pending set and no        *)
(* last-announced count.  checkAuth() is awaited by init() and by          *)
(* addToCart(): a call suspended in it is at "auth".  The fetch of         *)
(* checkAuth() settling, checkAuth() returning and its caller going on up  *)
(* to its next await are one step: the browser delivers each response in a *)
(* task of its own and runs the continuations that task resumes before the *)
(* next task.                                                              *)
(***************************************************************************)

RBool(b) == [t |-> "boolean", v |-> <<b>>]
RRequiresLogin == [t |-> "requires_login", v |-> <<>>]
RFailure == [t |-> "failure", v |-> <<>>]

\* How the GET of checkAuth() may end: the fetch rejects, or the server
\* answers with one of these statuses
AuthOutcomes == {"rejected", "200", "401", "403", "500"}

\* updateCartCount(count) of the older variant: the elements show
\* `count || 0` and the event carries count as it was passed, the number or,
\* for a count that is undefined, <<>>
LegacyUpdateCartCount(count) ==
    /\ display' = <<OrZero(count)>>
    /\ dispatchEvent(IF count = Null THEN Null ELSE count[1])

\* A call that returns before any await
LegacyReturns(op, ret) ==
    /\ last' = Step(op, "call", Null, ret)
    /\ UNCHANGED <<isAuthenticated, initialized, pending, cache, sessionCart,
                   lastCartCount, display, events, now, calls, serverCount>>

\* A call that sends a request and suspends at pc
LegacySends(op, pc) ==
    /\ BagCardinality(calls) < MaxCalls
    /\ calls' = Suspend(Call(op, pc, NoAnswer))
    /\ last' = Step(op, "call", Null, RPending)
    /\ UNCHANGED <<isAuthenticated, initialized, pending, cache, sessionCart,
                   lastCartCount, display, events, now, serverCount>>

\* init(), checkAuth() called on its own: the GET of checkAuth() is sent
LegacyInit == LegacySends("init", "auth")
LegacyCheckAuth == LegacySends("checkAuth", "auth")

\* loadCart()
LegacyLoadCart ==
    IF ~isAuthenticated THEN LegacyReturns("loadCart", RNull)
    ELSE LegacySends("loadCart", "fetch")

\* addToCart(itemData): checkAuth() first unless the flag is set
LegacyAddToCart ==
    IF ~isAuthenticated THEN LegacySends("addToCart", "auth")
    ELSE LegacySends("addToCart", "fetch")

LegacyUpdateCartItem ==
    IF ~isAuthenticated THEN LegacyReturns("updateCartItem", RRequiresLogin)
    ELSE LegacySends("updateCartItem", "fetch")

LegacyRemoveFromCart ==
    IF ~isAuthenticated THEN LegacyReturns("removeFromCart", RRequiresLogin)
    ELSE LegacySends("removeFromCart", "fetch")

LegacyMergeSessionCart ==
    IF ~isAuthenticated THEN LegacyReturns("mergeSessionCart", RFailure)
    ELSE IF Len(getSessionCart) = 0 THEN LegacyReturns("mergeSessionCart", RNoItems)
    ELSE LegacySends("mergeSessionCart", "fetch")

\* checkAuth() after its await, on outcome o: the flag it leaves
checkAuth(o) ==
    IF o = "rejected" THEN FALSE                 \* catch
    ELSE IF o = "401" \/ o = "403" THEN FALSE
    ELSE IF o = "200" THEN TRUE                  \* response.ok
    ELSE isAuthenticated

\* what checkAuth() returns on outcome o
checkAuthReturns(o) == o = "200"

\* checkAuth() called on its own settles
LegacyCheckAuthSettles ==
    \E c \in BagToSet(calls) :
        /\ c.op = "checkAuth" /\ c.pc = "auth"
        /\ \E o \in AuthOutcomes :
             /\ isAuthenticated' = checkAuth(o)
             /\ calls' = Resume(c)
             /\ last' = Step("checkAuth", "auth", <<o>>, RBool(checkAuthReturns(o)))
        /\ UNCHANGED <<initialized, pending, cache, sessionCart, lastCartCount,
                       display, events, now, serverCount>>

\* the checkAuth() of init() settles; init() calls loadCart() if the flag is set
LegacyInitSettles ==
    \E c \in BagToSet(calls) :
        /\ c.op = "init" /\ c.pc = "auth"
        /\ \E o \in AuthOutcomes :
             /\ isAuthenticated' = checkAuth(o)
             /\ IF checkAuth(o)
                THEN /\ calls' = Resume(c) (+) SetToBag({Call("loadCart", "fetch", NoAnswer)})
                     /\ last' = Step("init", "auth", <<o>>, RPending)
                ELSE /\ calls' = Resume(c)
                     /\ last' = Step("init", "auth", <<o>>, RUndefined)
        /\ UNCHANGED <<initialized, pending, cache, sessionCart, lastCartCount,
                       display, events, now, serverCount>>

\* LegacyAddToCartSettles where addToCart() does not look at what checkAuth() returned
LegacyAddToCartSettles_ignoresAuth ==
    \E c \in BagToSet(calls) :
        /\ c.op = "addToCart" /\ c.pc = "auth"
        /\ \E o \in AuthOutcomes :
             /\ isAuthenticated' = checkAuth(o)
             /\ calls' = Resume(c) (+) SetToBag({Call("addToCart", "fetch", NoAnswer)})
             /\ last' = Step("addToCart", "auth", <<o>>, RPending)
        /\ UNCHANGED <<initialized, pending, cache, sessionCart, lastCartCount,
                       display, events, now, serverCount>>

\* the checkAuth() of addToCart() settles; the POST is sent if it returned true
LegacyAddToCartSettles ==
    \E c \in BagToSet(calls) :
        /\ c.op = "addToCart" /\ c.pc = "auth"
        /\ \E o \in AuthOutcomes :
             /\ isAuthenticated' = checkAuth(o)
             /\ IF checkAuthReturns(o)
                THEN /\ calls' = Resume(c) (+) SetToBag({Call("addToCart", "fetch", NoAnswer)})
                     /\ last' = Step("addToCart", "auth", <<o>>, RPending)
                ELSE /\ calls' = Resume(c)
                     /\ last' = Step("addToCart", "auth", <<o>>, RRequiresLogin)
        /\ UNCHANGED <<initialized, pending, cache, sessionCart, lastCartCount,
                       display, events, now, serverCount>>

\* A suspended call of the older variant returns ret and changes nothing else
LegacyEnds(op, c, step, ret) ==
    /\ calls' = Resume(c)
    /\ last' = Step(op, step, Null, ret)
    /\ UNCHANGED <<isAuthenticated, initialized, pending, cache, sessionCart,
                   lastCartCount, display, events, now>>

\* loadCart(): `await fetch('/api/cart/')` settles
LegacyLoadCartFetch ==
    \E c \in BagToSet(calls) :
        /\ c.op = "loadCart" /\ c.pc = "fetch"
        /\ UNCHANGED serverCount
        /\ \/ LegacyEnds("loadCart", c, "failed", RList(<<>>))   \* fetch rejects: catch
           \/ LegacyEnds("loadCart", c, "failed", RList(<<>>))   \* response.ok is false
           \/ \E a \in GetAnswers(serverCount) :
                /\ calls' = Resume(c) (+) SetToBag({Call("loadCart", "json", a)})
                /\ last' = Step("loadCart", "response", Null, RPending)
                /\ UNCHANGED <<isAuthenticated, initialized, pending, cache,
                               sessionCart, lastCartCount, display, events, now>>

\* loadCart(): `await response.json()` settles
LegacyLoadCartJson ==
    \E c \in BagToSet(calls) :
        /\ c.op = "loadCart" /\ c.pc = "json"
        /\ UNCHANGED serverCount
        /\ \E data \in GetBodies(c.answer) :
               IF ~data.parse \/ ~data.success
               THEN LegacyEnds("loadCart", c, "failed", RList(<<>>))
               ELSE /\ LegacyUpdateCartCount(<<OrZero(data.count)>>)
                    /\ calls' = Resume(c)
                    /\ last' = Step("loadCart", "success", <<data>>,
                                    RList(OrEmptyList(data.cart)))
                    /\ UNCHANGED <<isAuthenticated, initialized, pending, cache,
                                   sessionCart, lastCartCount, now>>

\* A POST of the older variant: `await fetch(...)` settles
LegacyMutationFetch(op) ==
    \E c \in BagToSet(calls) :
        /\ c.op = op /\ c.pc = "fetch"
        /\ \E applied \in BOOLEAN :
           \E s \in IF applied THEN ServerApply(op, serverCount) ELSE {serverCount} :
             /\ serverCount' = s
             /\ \/ LegacyEnds(op, c, "failed", RNetworkError)
                \/ /\ calls' = Resume(c) (+) SetToBag({Call(op, "json",
                                  Answer(applied, IF applied THEN <<s>> ELSE Null))})
                   /\ last' = Step(op, "response", Null, RPending)
                   /\ UNCHANGED <<isAuthenticated, initialized, pending, cache,
                                  sessionCart, lastCartCount, display, events, now>>

\* A POST of the older variant: `await response.json()` settles.  A request
\* the server did not apply may have been answered 401, which addToCart()
\* alone looks at, after parsing the body.
LegacyMutationJson(op) ==
    \E c \in BagToSet(calls) :
        /\ c.op = op /\ c.pc = "json"
        /\ UNCHANGED serverCount
        /\ \E data \in PostBodies(c.answer) :
           \E unauthorized \in IF c.answer.success THEN {FALSE} ELSE BOOLEAN :
               IF ~data.parse
               THEN LegacyEnds(op, c, "failed", RNetworkError)
               ELSE IF op = "addToCart" /\ unauthorized
               THEN LegacyEnds(op, c, "unauthorized", RRequiresLogin)
               ELSE IF data.success
               THEN /\ IF op = "mergeSessionCart" THEN clearSessionCart
                       ELSE UNCHANGED sessionCart
                    /\ LegacyUpdateCartCount(<<OrZero(data.count)>>)
                    /\ calls' = Resume(c)
                    /\ last' = Step(op, "success", <<data>>, RData(data))
                    /\ UNCHANGED <<isAuthenticated, initialized, pending, cache,
                                   lastCartCount, now>>
               ELSE /\ calls' = Resume(c)
                    /\ last' = Step(op, "refused", <<data>>, RData(data))
                    /\ UNCHANGED <<isAuthenticated, initialized, pending, cache,
                                   sessionCart, lastCartCount, display, events, now>>

LegacyAddToCartFetch == LegacyMutationFetch("addToCart")
LegacyAddToCartJson == LegacyMutationJson("addToCart")
LegacyUpdateCartItemFetch == LegacyMutationFetch("updateCartItem")
LegacyUpdateCartItemJson == LegacyMutationJson("updateCartItem")
LegacyRemoveFromCartFetch == LegacyMutationFetch("removeFromCart")
LegacyRemoveFromCartJson == LegacyMutationJson("removeFromCart")
LegacyMergeSessionCartFetch == LegacyMutationFetch("mergeSessionCart")
LegacyMergeSessionCartJson == LegacyMutationJson("mergeSessionCart")

\* updateCartCount(count) called by another script of the page
LegacyCallUpdateCartCount ==
    \E count \in {Null} \cup {<<n>> : n \in Counts} :
        /\ LegacyUpdateCartCount(count)
        /\ last' = Step("updateCartCount", "announced", count, RUndefined)
        /\ UNCHANGED <<isAuthenticated, initialized, pending, cache, sessionCart,
                       lastCartCount, now, calls, serverCount>>

\* clearSessionCart() called by another script of the page
LegacyCallClearSessionCart ==
    /\ clearSessionCart
    /\ last' = Step("clearSessionCart", "call", Null, RUndefined)
    /\ UNCHANGED <<isAuthenticated, initialized, pending, cache, lastCartCount,
                   display, events, now, calls, serverCount>>

LegacyInitState ==
    /\ isAuthenticated = FALSE
    /\ initialized = FALSE
    /\ pending = {}
    /\ cache = Null
    /\ sessionCart \in StoredCarts
    /\ lastCartCount = Null
    /\ display = Null
    /\ events = <<>>
    /\ now = 0
    /\ calls = EmptyBag
    /\ serverCount \in Counts
    /\ last = Step("load", "load", Null, RUndefined)

LegacyNext ==
    \/ LegacyInit
    \/ LegacyCheckAuth
    \/ LegacyLoadCart
    \/ LegacyAddToCart
    \/ LegacyUpdateCartItem
    \/ LegacyRemoveFromCart
    \/ LegacyMergeSessionCart
    \/ LegacyCallUpdateCartCount
    \/ LegacyCallClearSessionCart
    \/ LegacyCheckAuthSettles
    \/ LegacyInitSettles
    \/ LegacyAddToCartSettles
    \/ LegacyLoadCartFetch
    \/ LegacyLoadCartJson
    \/ LegacyAddToCartFetch
    \/ LegacyAddToCartJson
    \/ LegacyUpdateCartItemFetch
    \/ LegacyUpdateCartItemJson
    \/ LegacyRemoveFromCartFetch
    \/ LegacyRemoveFromCartJson
    \/ LegacyMergeSessionCartFetch
    \/ LegacyMergeSessionCartJson

LegacySpec == LegacyInitState /\ [][LegacyNext]_vars

----------------------------------------------------------------------------
(* Vocabulary of the properties *)

\* The cache holds an entry younger than five seconds / of five seconds or more
Fresh == cache # Null /\ now - cache[1].timestamp < CacheTTL
Stale == cache # Null /\ now - cache[1].timestamp >= CacheTTL

\* This step is a loadCartCount() call (made directly, or by the first init())
\* running up to its return or its first await
LoadCartCountCalled ==
    /\ last'.step = "call"
    /\ last'.op = "loadCartCount" \/ (last'.op = "init" /\ ~initialized)

\* This step issued one GET for the count and nothing else
CountFetchIssued ==
    /\ calls' = calls (+) SetToBag({Call("loadCartCount", "fetch", NoAnswer)})
    /\ pending' = pending \cup {"loadCartCount"}

\* This step sent no request and resumed no call
NoRequest == calls' = calls /\ pending' = pending

----------------------------------------------------------------------------
\* C1: in every reachable state at most one network request is in flight for
\* each of the keys 'loadCartCount' and 'loadCart'.
C1_OneRequestPerKey == \A k \in LoadKeys : InFlight(k) <= 1

\* A second loadCartCount() was answered null while the first is in flight
C1_Witness ==
    /\ last = Step("loadCartCount", "call", Null, RNull)
    /\ InFlight("loadCartCount") = 1

\* C2 as stated: a loadCartCount() call made while a count request is
\* outstanding returns null, whatever happened in between.
C2_AlwaysNullWhilePending ==
    (/\ last.op = "loadCartCount" /\ last.step = "call"
     /\ last.ret # RPending
     /\ InFlight("loadCartCount") >= 1) => last.ret = RNull

\* C2 as amended: a loadCartCount() call made while a count request is
\* outstanding issues no request, and returns null unless the cache holds a
\* fresh entry (a loadCart() that succeeded in between wrote it), in which
\* case it returns the cached count.
C2_DuplicateWhilePending ==
    [][ (LoadCartCountCalled /\ InFlight("loadCartCount") >= 1) =>
          /\ NoRequest
          /\ last'.ret = IF Fresh THEN RNum(cache[1].count) ELSE RNull ]_vars

C2_Witness ==
    /\ last = Step("loadCartCount", "call", Null, RNull)
    /\ InFlight("loadCartCount") = 1
    /\ Stale

\* C3: a loadCartCount() call made while the cache entry is younger than
\* five seconds returns the cached count, issues no request and adds no key
\* to the pending set.
C3_FreshCacheServed ==
    [][ (LoadCartCountCalled /\ Fresh) =>
          /\ last'.ret = RNum(cache[1].count)
          /\ NoRequest
          /\ cache' = cache ]_vars

\* A call served from an entry written before the instant of the call
C3_Witness ==
    /\ last.op = "loadCartCount" /\ last.step = "call"
    /\ Fresh /\ now > cache[1].timestamp
    /\ last.ret = RNum(cache[1].count)

\* C4 as stated: a loadCartCount() call made when the cache entry is five
\* seconds old or more triggers a fresh fetch.
C4_StaleAlwaysFetches ==
    (last.op = "loadCartCount" /\ last.step = "call" /\ Stale)
        => last.ret = RPending

\* C4 as amended: a loadCartCount() call made when the cache entry is five
\* seconds old or more does not return the cached value; it issues a fresh
\* GET unless a count request is already in flight, and then returns null
\* and issues nothing.
C4_StaleNotServed ==
    [][ (LoadCartCountCalled /\ Stale) =>
          IF "loadCartCount" \in pending
          THEN last'.ret = RNull /\ NoRequest
          ELSE last'.ret = RPending /\ CountFetchIssued ]_vars

\* A call at exactly five seconds of age that went to the network
C4_Witness ==
    /\ last = Step("loadCartCount", "call", Null, RPending)
    /\ cache # Null /\ now - cache[1].timestamp = CacheTTL
    /\ InFlight("loadCartCount") = 1

\* C5: when addToCart, updateCartItem, removeFromCart or mergeSessionCart
\* returns after a successful response, the cache entry is absent, so the
\* next loadCartCount() has no earlier entry to return.
C5_SuccessClearsCache ==
    (last.op \in Mutations /\ last.step = "success") =>
        cache = Null /\ getCachedCount = Null

C5_Witness ==
    /\ last.op = "addToCart" /\ last.step = "success"
    /\ last.arg[1].count = <<1>>
    /\ cache = Null /\ lastCartCount = <<1>>

\* C6: updateCartCount(count) changes nothing and dispatches nothing when
\* the normalized count equals the last-announced one, and otherwise
\* announces the normalized count; no two consecutive 'cart-updated' events
\* carry the same count.
C6_Idempotent ==
    [][ /\ last'.op = "updateCartCount" =>
             /\ lastCartCount' = <<OrZero(last'.arg)>>
             /\ lastCartCount = <<OrZero(last'.arg)>> =>
                    UNCHANGED <<isAuthenticated, initialized, pending, cache, sessionCart,
                                lastCartCount, display, events, now, calls,
                                serverCount>>
        /\ events' # events =>
             /\ events'[Len(events')] = lastCartCount'[1]
             /\ Len(events') = 2 => events'[1] # events'[2] ]_vars

\* updateCartCount(1) called when 1 is already announced
C6_Witness ==
    /\ last = Step("updateCartCount", "unchanged", <<1>>, RUndefined)
    /\ lastCartCount = <<1>> /\ display = <<1>>
    /\ events = <<0, 1>>

\* C7: a mutation whose request fails with a transport or parse error
\* returns {success: false, error: 'Network error'} and leaves the displayed
\* count, the last-announced count and the cache entry unchanged, with no
\* 'cart-updated' event.
C7_MutationFailure ==
    [][ (last'.op \in Mutations /\ last'.step = "failed") =>
          /\ last'.ret = RNetworkError
          /\ UNCHANGED <<display, lastCartCount, cache, events>> ]_vars

C7_Witness ==
    /\ last = Step("removeFromCart", "failed", Null, RNetworkError)
    /\ display = <<1>> /\ Fresh

\* C8: a loadCartCount() request that fails (transport error, status not
\* ok, unparseable body, success false) returns 0, and the 0 is neither
\* cached nor displayed.
C8_CountFailure ==
    [][ (last'.op = "loadCartCount" /\ last'.step = "failed") =>
          /\ last'.ret = RNum(0)
          /\ UNCHANGED <<display, lastCartCount, cache, events>> ]_vars

\* 0 was returned while the page keeps showing 1
C8_Witness ==
    /\ last = Step("loadCartCount", "failed", Null, RNum(0))
    /\ display = <<1>> /\ cache = Null

\* C9 as stated: every request settling eventually, whenever the pending
\* set holds a key it eventually becomes empty.
C9_EventuallyEmpty == (pending # {}) ~> (pending = {})

\* C9 as amended: a key is in the pending set exactly while a call of its
\* operation is suspended, and, every request settling eventually, each key
\* in the set is eventually removed from it, so that a later call of that
\* operation is not answered null for ever.  The set as a whole need not
\* ever be empty again: the two keys may take turns in it.
C9_PendingReleased ==
    /\ [](pending = {k \in LoadKeys : InFlight(k) >= 1})
    /\ \A k \in LoadKeys : (k \in pending) ~> (k \notin pending)

\* A loadCart() request has failed and the set is empty again
C9_Witness ==
    /\ last.op = "loadCart" /\ last.step = "failed"
    /\ pending = {} /\ calls = EmptyBag

\* C10: a loadCart() whose request succeeds returns the item list ([] if
\* absent), caches the response's item_count and displays it, and the entry stays
\* until a mutation succeeds, so that a loadCartCount() in the next five
\* seconds is served from it with no request; a loadCart() whose request
\* fails returns [] and changes neither cache nor display.
C10_LoadCart ==
    [][ /\ (last'.op = "loadCart" /\ last'.step = "success") =>
             LET data == last'.arg[1]
             IN  /\ last'.ret = RList(OrEmptyList(data.cart))
                 /\ cache' = <<[count |-> OrZero(data.count), timestamp |-> now]>>
                 /\ display' = <<OrZero(data.count)>>
                 /\ lastCartCount' = display'
        /\ (last'.op = "loadCart" /\ last'.step = "failed") =>
             /\ last'.ret = RList(<<>>)
             /\ UNCHANGED <<cache, display, lastCartCount, events>>
        /\ (cache # Null /\ cache' # cache) =>
             \/ last'.op \in Mutations /\ last'.step = "success" /\ cache' = Null
             \/ /\ last'.op \in LoadKeys /\ last'.step = "success"
                /\ cache' # Null /\ cache'[1].timestamp = now
        /\ (LoadCartCountCalled /\ Fresh) =>
             last'.ret = RNum(cache[1].count) /\ NoRequest ]_vars

\* loadCart() returned one item and the count 1 is cached and displayed
C10_Witness ==
    /\ last.op = "loadCart" /\ last.step = "success"
    /\ last.ret = RList(Items(1))
    /\ cache = <<[count |-> 1, timestamp |-> now]>> /\ display = <<1>>

\* C11 as stated, in the case of a call that is the only one of its
\* operation and whose request fails right after it was sent: the entry that
\* was in the cache when the call started is no longer there to be served.
C11_ClearedWhateverOutcome ==
    [][ (/\ last.op \in Mutations /\ last.step = "call" /\ last.ret = RPending
         /\ InFlight(last.op) = 1
         /\ last'.op = last.op /\ last'.step = "failed") => ~Fresh' ]_vars

\* C11 as amended: a mutation that returns after a successful response
\* leaves no cache entry, so none written before the call started can be
\* served; a mutation that is sent, answered, fails or is refused leaves the
\* cache entry exactly as it was.
C11_SuccessInvalidates ==
    [][ /\ (last'.op \in Mutations /\ last'.step = "success") => cache' = Null
        /\ (last'.op \in Mutations /\ last'.step # "success") => cache' = cache ]_vars

\* The server refused an item update and the entry cached before is still fresh
C11_Witness ==
    /\ last.op = "updateCartItem" /\ last.step = "refused"
    /\ Fresh /\ cache[1].count = 1

\* C12: mergeSessionCart() called with nothing to merge under the key
\* 'cart' (key missing, empty value, empty list, or text that does not
\* parse) returns the success result 'No items to merge', sends no request
\* and changes neither cache, display nor storage; a merge that returns
\* after a successful response has removed the key, cleared the cache and
\* displays the response's cart_count, 0 if the response has none.
C12_Merge ==
    [][ /\ (last'.op = "mergeSessionCart" /\ last'.step = "call") =>
             IF sessionCart \in {"missing", "blank", "empty", "garbage"}
             THEN /\ last'.ret = RNoItems
                  /\ NoRequest
                  /\ UNCHANGED <<cache, display, lastCartCount, events, sessionCart>>
             ELSE /\ last'.ret = RPending
                  /\ calls' = calls (+) SetToBag({Call("mergeSessionCart", "fetch", NoAnswer)})
        /\ (last'.op = "mergeSessionCart" /\ last'.step = "success") =>
             /\ sessionCart' = "missing"
             /\ cache' = Null
             /\ display' = <<OrZero(last'.arg[1].count)>>
             /\ lastCartCount' = display' ]_vars

\* Nothing was sent for a 'cart' value that does not parse, and the fresh
\* cache entry and the displayed 1 are still there
C12_Witness ==
    /\ last = Step("mergeSessionCart", "call", Null, RNoItems)
    /\ sessionCart = "garbage"
    /\ calls = EmptyBag
    /\ Fresh /\ display = <<1>>

\* C13 as stated: in every reachable state at most one GET of /api/cart/ is
\* in flight, whichever of loadCartCount() and loadCart() issued it.
C13_OneGetInFlight == InFlight("loadCartCount") + InFlight("loadCart") <= 1

\* C13 as amended: requests are deduplicated per key, not per resource: the
\* GETs of /api/cart/ in flight are exactly as many as the keys in the
\* pending set, at most one issued by loadCartCount() and one by loadCart(),
\* so at most two.
C13_OneGetPerKey ==
    /\ pending \subseteq LoadKeys
    /\ InFlight("loadCartCount") + InFlight("loadCart") = Cardinality(pending)
    /\ InFlight("loadCartCount") + InFlight("loadCart") <= 2

\* loadCart() sent its GET while the GET of loadCartCount() is outstanding
C13_Witness ==
    /\ last = Step("loadCart", "call", Null, RPending)
    /\ InFlight("loadCartCount") = 1 /\ InFlight("loadCart") = 1

\* C14 as stated, for a GET whose response is handled right after the
\* mutation's: once a successful mutation has displayed the count the server
\* held after it, the response of a loadCartCount() or loadCart() GET that
\* was sent before the mutation and carries another, earlier count neither
\* puts that count on display nor into the cache.
C14_StaleResponseDiscarded ==
    [][ (/\ last.op \in Mutations /\ last.step = "success"
         /\ last.arg[1].count # Null
         /\ last'.op \in LoadKeys /\ last'.step = "success"
         /\ last'.arg[1].count # Null
         /\ last'.arg[1].count # last.arg[1].count) =>
          /\ display' # last'.arg[1].count
          /\ cache' = Null \/ <<cache'[1].count>> # last'.arg[1].count ]_vars

\* C15: mergeSessionCart() removes the key 'cart' only in the step that
\* parsed a response saying success true; a merge that is sent, answered,
\* fails (transport error, unparseable body) or is refused (success false)
\* leaves what is stored under the key exactly as it was.  Whenever stored
\* items disappear, a merge was confirmed in that very step, or a script of
\* the page called clearSessionCart() itself.
C15_CartKeptUntilMerged ==
    [][ /\ (last'.op = "mergeSessionCart" /\ last'.step # "success") =>
             sessionCart' = sessionCart
        /\ (last'.op = "mergeSessionCart" /\ last'.step = "success") =>
             last'.arg[1].success /\ sessionCart' = "missing"
        /\ sessionCart' # sessionCart =>
             /\ sessionCart' = "missing"
             /\ \/ last'.op = "mergeSessionCart" /\ last'.step = "success"
                \/ last'.op = "clearSessionCart" ]_vars

\* The server refused the merge and the items are still stored
C15_Witness ==
    /\ last.op = "mergeSessionCart" /\ last.step = "refused"
    /\ sessionCart = "items" /\ calls = EmptyBag

\* C16: before the first updateCartCount() call nothing is announced,
\* displayed or dispatched; in every state after it the last-announced
\* count, the count on display and the count of the latest 'cart-updated'
\* event are one and the same number, never null or undefined.
C16_AnnouncedDisplayedDispatched ==
    IF lastCartCount = Null
    THEN display = Null /\ events = <<>>
    ELSE /\ lastCartCount[1] \in Nat
         /\ display = lastCartCount
         /\ events # <<>>
         /\ events[Len(events)] = lastCartCount[1]

\* A removal brought the announced, displayed and dispatched count from 1
\* back to 0
C16_Witness ==
    /\ last.op = "removeFromCart" /\ last.step = "success"
    /\ lastCartCount = <<0>> /\ display = <<0>> /\ events = <<1, 0>>

\* C17: a loadCartCount() or loadCart() call answered null as a duplicate
\* sends no request and leaves the pending set, the cache, the
\* last-announced count and the display as they were; the key of the
\* request in flight stays, and a key is in the pending set exactly while
\* one request of its operation is outstanding.
C17_DuplicateChangesNothing ==
    [][ /\ (last'.step = "call" /\ last'.ret = RNull) =>
             LET key == IF last'.op = "loadCart" THEN "loadCart" ELSE "loadCartCount"
             IN  /\ last'.op \in {"loadCartCount", "loadCart", "init"}
                 /\ key \in pending
                 /\ UNCHANGED <<pending, calls, cache, lastCartCount, display,
                                events, sessionCart, now, serverCount>>
        /\ \A k \in LoadKeys : (k \in pending' <=> InFlight(k)' = 1)
        /\ pending' \subseteq LoadKeys ]_vars

\* loadCart() was answered null while its earlier request awaits the body,
\* with a count cached and displayed
C17_Witness ==
    /\ last = Step("loadCart", "call", Null, RNull)
    /\ \E c \in BagToSet(calls) : c.op = "loadCart" /\ c.pc = "json"
    /\ pending = {"loadCart"}
    /\ cache # Null /\ display = <<1>>

\* C18: the first init() sets the initialized flag, which is never reset,
\* and makes one loadCartCount() call (served from a fresh cache entry,
\* answered null behind a pending count request, or sending one GET); every
\* later init(), whether the first request is still awaited, has succeeded
\* or has failed, sends nothing and changes no state.
C18_InitOnce ==
    [][ /\ initialized => initialized'
        /\ last'.op = "init" =>
             IF initialized
             THEN /\ last'.ret = RUndefined
                  /\ UNCHANGED <<isAuthenticated, initialized, pending, cache, sessionCart,
                                 lastCartCount, display, events, now, calls,
                                 serverCount>>
             ELSE /\ initialized'
                  /\ IF Fresh THEN last'.ret = RNum(cache[1].count) /\ NoRequest
                     ELSE IF "loadCartCount" \in pending
                     THEN last'.ret = RNull /\ NoRequest
                     ELSE last'.ret = RPending /\ CountFetchIssued ]_vars

\* init() was called again after the request of the first had failed:
\* nothing is in flight, cached or displayed
C18_Witness ==
    /\ last = Step("init", "call", Null, RUndefined)
    /\ initialized /\ calls = EmptyBag
    /\ cache = Null /\ lastCartCount = Null

\* This step sent the POST of a mutation (older variant)
LegacyPostSent ==
    \E op \in Mutations :
        CopiesIn(Call(op, "fetch", NoAnswer), calls') >
            CopiesIn(Call(op, "fetch", NoAnswer), calls)

\* C19: in the older variant, while the flag isAuthenticated is false
\* loadCart() returns null and updateCartItem, removeFromCart and
\* mergeSessionCart return a failure result, all without a request, and
\* addToCart sends only the GET of checkAuth(); a checkAuth() whose GET is
\* answered 401 or 403 or is rejected leaves the flag false; addToCart sends
\* its POST after checkAuth() exactly when it returned true; and no POST of
\* a mutation is sent with the flag false.
C19_AuthGate ==
    [][ /\ (last'.step = "call" /\ ~isAuthenticated) =>
             /\ UNCHANGED serverCount
             /\ ~LegacyPostSent
             /\ last'.op = "loadCart" => last'.ret = RNull /\ calls' = calls
             /\ last'.op \in {"updateCartItem", "removeFromCart"} =>
                    last'.ret = RRequiresLogin /\ calls' = calls
             /\ last'.op = "mergeSessionCart" =>
                    last'.ret = RFailure /\ calls' = calls
             /\ last'.op = "addToCart" =>
                    calls' = calls (+) SetToBag({Call("addToCart", "auth", NoAnswer)})
        /\ (last'.step = "auth" /\ last'.arg \in {<<"rejected">>, <<"401">>, <<"403">>}) =>
             ~isAuthenticated'
        /\ (last'.step = "auth" /\ last'.op = "addToCart") =>
             (LegacyPostSent <=> last'.arg = <<"200">>)
        /\ LegacyPostSent => isAuthenticated' ]_vars

\* A removal was turned away without a request while the checkAuth() of an
\* addToCart() is awaited, on a page that shows a count
C19_Witness ==
    /\ last = Step("removeFromCart", "call", Null, RRequiresLogin)
    /\ ~isAuthenticated /\ display = <<1>>
    /\ calls = SetToBag({Call("addToCart", "auth", NoAnswer)})

====
